---- MODULE Spec2Model ----
(***************************************************************************)
(* Model of the typhoon plugin: the chat handler (src/typhoon/__init__.py) *)
(* and the adapter, renderer and orchestrators (src/typhoon/typhoon.py).   *)
(*                                                                         *)
(* Conventions.                                                            *)
(*  - A Python object or JSON object is a record; a missing key is a field *)
(*    that is not in DOMAIN.  A Python list is a sequence.                 *)
(*  - A slot that may hold Python None / JSON null holds None or Some(v);  *)
(*    Val(x) is the v of Some(v).                                          *)
(*  - A string that the code inspects (the argument of extract_match) is a *)
(*    sequence of one-character strings; a string the code only passes on  *)
(*    is a TLA+ string.                                                    *)
(*  - A call that may raise is modelled by its completion: Return(v) or    *)
(*    Raise(kind, arg), the exception that leaves the call.                *)
(*  - Degrees are fixed-point integers with Scale units per degree; Scale  *)
(*    is a multiple of KmPerDeg so that km / 111 is exact.                 *)
(***************************************************************************)
EXTENDS Integers, Sequences, FiniteSets, TLC

VARIABLES
    pc,         \* position of the running call ("idle" between calls)
    op,         \* which orchestrator the handler called
    req,        \* the _id argument of plot_typhoon (typhoon.result)
    resp,       \* response.json() of currMerger.json
    lst,        \* typhoon_list / lst built by get_typhoon_list
    typhoon,    \* the Typhoon at hand (plot_typhoon's local, plot_typhoons' argument)
    lat_range,  \* plot_typhoon's lat_range
    lon_range,  \* plot_typhoon's lon_range
    fig,        \* the figure number the running call created (0: none yet)
    figs,       \* pyplot's registry of open figures
    ax,         \* the axes of the running call and what was drawn on it
    outcome,    \* how the running call ended
    text,       \* extract_match's argument
    match,      \* extract_match's result
    ty,         \* init_typhoon's argument
    made        \* init_typhoon's completion

vars == <<pc, op, req, resp, lst, typhoon, lat_range, lon_range, fig, figs,
          ax, outcome, text, match, ty, made>>

(***************************************************************************)
(* Bounds of the model.                                                    *)
(***************************************************************************)
MaxLen == 4       \* longest text given to extract_match
MaxPoints == 2    \* longest points array of a record given to init_typhoon
MaxStorms == 2    \* longest storm list the provider returns
MaxFigures == 2   \* render calls that create a figure, per behaviour

(***************************************************************************)
(* Values.                                                                 *)
(***************************************************************************)
None == <<>>
Some(v) == <<v>>
Val(x) == x[1]

Return(v) == [exc |-> "none", arg |-> "", val |-> v]
Raise(kind, arg) == [exc |-> kind, arg |-> arg, val |-> None]

Max(a, b) == IF a >= b THEN a ELSE b
Min(a, b) == IF a <= b THEN a ELSE b

RECURSIVE MinOf(_)
MinOf(s) == IF Len(s) = 1 THEN s[1] ELSE Min(s[1], MinOf(Tail(s)))

RECURSIVE MaxOf(_)
MaxOf(s) == IF Len(s) = 1 THEN s[1] ELSE Max(s[1], MaxOf(Tail(s)))

RECURSIVE Concat(_)
Concat(ss) == IF ss = <<>> THEN <<>> ELSE Head(ss) \o Concat(Tail(ss))

KmPerDeg == 111
Scale == 10 * KmPerDeg
Deg(d) == d * Scale
KmToDeg(km) == (km * Scale) \div KmPerDeg

(***************************************************************************)
(* palette and palette.get(cat, "gray").                                   *)
(***************************************************************************)
palette ==
    [k \in {<<"T", "D">>, <<"T", "S">>, <<"S", "T", "S">>, <<"T", "Y">>,
            <<"S", "T", "Y">>, <<"S", "u", "p", "e", "r", " ", "T", "Y">>} |->
        CASE k = <<"T", "D">> -> "green"
          [] k = <<"T", "S">> -> "blue"
          [] k = <<"S", "T", "S">> -> "yellow"
          [] k = <<"T", "Y">> -> "darkorange"
          [] k = <<"S", "T", "Y">> -> "hotpink"
          [] OTHER -> "red"]

palette_get(cat) ==
    IF cat # None /\ Val(cat) \in DOMAIN palette THEN palette[Val(cat)] ELSE "gray"

(***************************************************************************)
(* extract_match: re.search(r"\(([A-Za-z ]+)\)$", text).                   *)
(***************************************************************************)
AsciiLetters ==
    {"A", "B", "C", "D", "E", "F", "G", "H", "I", "J", "K", "L", "M", "N", "O",
     "P", "Q", "R", "S", "T", "U", "V", "W", "X", "Y", "Z", "a", "b", "c", "d",
     "e", "f", "g", "h", "i", "j", "k", "l", "m", "n", "o", "p", "q", "r", "s",
     "t", "u", "v", "w", "x", "y", "z"}

ClassLetterOnly(c) == c \in AsciiLetters
\* [A-Za-z ]
ClassChar(c) == c \in AsciiLetters \cup {" "}

\* [A-Za-z ]+ from position j, greedy: the position after the longest run.
RECURSIVE RunEnd(_, _)
RunEnd(s, j) ==
    IF j <= Len(s) /\ ClassChar(s[j]) THEN RunEnd(s, j + 1) ELSE j

\* $ at position k (the next character to read): the end of the string, or
\* just before a newline that ends the string.
AtEnd(s, k) == k = Len(s) + 1 \/ (k = Len(s) /\ s[k] = "\n")

\* The pattern matches starting at position i.  The class holds no ')', so
\* only the longest run can be followed by "\)".
MatchAt(s, i) ==
    /\ s[i] = "("
    /\ LET e == RunEnd(s, i + 1)
       IN  /\ e > i + 1
           /\ e <= Len(s)
           /\ s[e] = ")"
           /\ AtEnd(s, e + 1)

extract_match(s) ==
    LET hits == {i \in 1..Len(s) : MatchAt(s, i)}
    IN  IF hits = {} THEN None
        ELSE LET i == CHOOSE h \in hits : \A g \in hits : h <= g
             IN  Some(SubSeq(s, i + 1, RunEnd(s, i + 1) - 1))

(***************************************************************************)
(* Domain model: Typhoon, TyphoonStatus, TyphoonForecast.                  *)
(***************************************************************************)
\* TyphoonStatus.__init__: move_speed is accepted and not stored.
TyphoonStatus(latitude, longitude, cat, sus, gust, pressure, move_speed, forecast) ==
    [lat |-> latitude, long |-> longitude, cat |-> cat, sus |-> sus,
     gust |-> gust, pressure |-> pressure, forecast |-> forecast]

TyphoonForecast(hour, data) == [hour |-> hour, data |-> data]

\* Typhoon.__init__ with pre_typhoon, past and wind_range left at None.
Typhoon(_id, name, issue, current) ==
    [id |-> _id, name |-> name, issue |-> issue, current |-> current,
     pre_typhoon |-> <<>>, past |-> <<>>, wind_range |-> <<>>]

(***************************************************************************)
(* CAdapter.init_typhoon.                                                  *)
(***************************************************************************)
Has(obj, k) == k \in DOMAIN obj

\* The first key of keys, in the order the code subscripts them, that obj
\* lacks; "" when obj has them all.
RECURSIVE FirstMissing(_, _)
FirstMissing(obj, keys) ==
    IF keys = <<>> THEN ""
    ELSE IF ~Has(obj, Head(keys)) THEN Head(keys)
    ELSE FirstMissing(obj, Tail(keys))

\* The first completion of rs that raised, else the list of the values.
RECURSIVE Collect(_)
Collect(rs) ==
    IF rs = <<>> THEN Return(<<>>)
    ELSE IF Head(rs).exc # "none" THEN Head(rs)
    ELSE LET rest == Collect(Tail(rs))
         IN  IF rest.exc # "none" THEN rest
             ELSE Return(<<Head(rs).val>> \o rest.val)

\* TyphoonForecast(point2["time"], TyphoonStatus(point2["lat"], ...)).
ForecastPointOf(point2) ==
    LET miss == FirstMissing(point2,
                    <<"time", "lat", "lng", "strong", "speed", "pressure">>)
    IN  IF miss # "" THEN Raise("KeyError", miss)
        ELSE Return(TyphoonForecast(point2.time,
                 TyphoonStatus(point2.lat, point2.lng,
                     extract_match(point2.strong), point2.speed,
                     point2.speed, point2.pressure, None, None)))

\* The body of "for forecast in point["forecast"]": one forecast_set.
ForecastSetOf(forecast) ==
    IF ~Has(forecast, "points") THEN Raise("KeyError", "points")
    ELSE Collect([j \in 1..Len(forecast.points) |->
                     ForecastPointOf(forecast.points[j])])

\* point.get("forecast") is not None
CarriesForecast(point) == Has(point, "forecast") /\ point.forecast # None

RunsReversed(runs) == [k \in 1..Len(runs) |-> runs[Len(runs) + 1 - k]]
\* status.forecast: the forecast sets in the order the loop appends them.
RunsInOrder(runs) == runs

\* The body of "for point in typhoon_data["points"]": the status appended
\* to typhoon.past.
PastStatusOf(point) ==
    LET miss == FirstMissing(point,
                    <<"lat", "lng", "strong", "speed", "pressure">>)
    IN  IF miss # "" THEN Raise("KeyError", miss)
        ELSE LET status == TyphoonStatus(point.lat, point.lng,
                               extract_match(point.strong), point.speed,
                               point.speed, point.pressure, None, None)
             IN  IF ~CarriesForecast(point) THEN Return(status)
                 ELSE LET sets == Collect(
                              [k \in 1..Len(Val(point.forecast)) |->
                                  ForecastSetOf(Val(point.forecast)[k])])
                      IN  IF sets.exc # "none" THEN sets
                          ELSE Return([status EXCEPT
                                   !.forecast = Some(RunsInOrder(sets.val))])

FirstPoint(points) == points[1]
\* typhoon_data["points"][-1]
LastPoint(points) == points[Len(points)]

\* typhoon.wind_range = [radius7, radius7] of the last point.
WindRangeOf(point) == <<point.radius7, point.radius7>>

init_typhoon(typhoon_data) ==
    IF ~Has(typhoon_data, "ename") THEN Raise("KeyError", "ename")
    ELSE IF ~Has(typhoon_data, "points") THEN Raise("KeyError", "points")
    ELSE IF typhoon_data.points = <<>>
    THEN Raise("IndexError", "list index out of range")
    ELSE
    LET last == LastPoint(typhoon_data.points)
        miss == FirstMissing(last,
                    <<"lat", "lng", "strong", "speed", "pressure", "move_speed">>)
    IN  IF miss # "" THEN Raise("KeyError", miss)
        ELSE IF ~Has(typhoon_data, "tfbh") THEN Raise("KeyError", "tfbh")
        ELSE IF ~Has(typhoon_data, "end_time") THEN Raise("KeyError", "end_time")
        ELSE IF ~Has(last, "radius7") THEN Raise("KeyError", "radius7")
        ELSE
        LET current_status ==
                TyphoonStatus(last.lat, last.lng, extract_match(last.strong),
                    last.speed, last.speed, last.pressure, last.move_speed, None)
            new == Typhoon(typhoon_data.tfbh, typhoon_data.ename,
                       typhoon_data.end_time, current_status)
            past == Collect([i \in 1..Len(typhoon_data.points) |->
                                PastStatusOf(typhoon_data.points[i])])
        IN  IF past.exc # "none" THEN past
            ELSE Return([new EXCEPT !.wind_range = WindRangeOf(last),
                                    !.past = past.val])

(***************************************************************************)
(* Texts for extract_match.                                                *)
(***************************************************************************)
Alphabet == {"(", ")", "T", " ", "1", "\n"}

SeqsUpTo(S, n) == UNION {[1..k -> S] : k \in 0..n}

Texts == SeqsUpTo(Alphabet, MaxLen)

InitExtract ==
    /\ pc = "extract"
    /\ text \in Texts
    /\ match = None
    /\ op = "none" /\ req = None /\ resp = None /\ lst = None
    /\ typhoon = None /\ lat_range = None /\ lon_range = None
    /\ fig = 0 /\ figs = {} /\ ax = None /\ outcome = None
    /\ ty = None /\ made = None

ExtractMatch ==
    /\ pc = "extract"
    /\ match' = extract_match(text)
    /\ pc' = "done"
    /\ UNCHANGED <<op, req, resp, lst, typhoon, lat_range, lon_range, fig,
                   figs, ax, outcome, text, ty, made>>

NextExtract == ExtractMatch

SpecExtract == InitExtract /\ [][NextExtract]_vars

(***************************************************************************)
(* Provider data: records of currMerger.json.                              *)
(***************************************************************************)
Drop(obj, k) == [f \in DOMAIN obj \ {k} |-> obj[f]]
With(obj, k, v) == [f \in DOMAIN obj \cup {k} |-> IF f = k THEN v ELSE obj[f]]

\* "Typhoon (TY)" and "TD"
StrongTY == <<"T", "y", "p", "h", "o", "o", "n", " ", "(", "T", "Y", ")">>
StrongPlain == <<"T", "D">>

ForecastPoint(time, lat, lng, strong) ==
    [time |-> time, lat |-> lat, lng |-> lng, strong |-> strong,
     speed |-> 25, pressure |-> 980]

Run1 == [points |-> <<ForecastPoint("12h", Deg(22), Deg(142), StrongTY),
                      ForecastPoint("24h", Deg(25), Deg(145), StrongPlain)>>]
Run2 == [points |-> <<ForecastPoint("12h", Deg(8), Deg(118), StrongPlain)>>]

TrackPoint(lat, lng, strong, radius7) ==
    [lat |-> lat, lng |-> lng, strong |-> strong, speed |-> 30,
     pressure |-> 960, move_speed |-> 10, radius7 |-> radius7]

PointA(radius7) == TrackPoint(Deg(10), Deg(120), StrongTY, radius7)
PointB(radius7) == TrackPoint(Deg(20), Deg(140), StrongPlain, radius7)

\* radius7 of a point, in km.
Radii == <<0, 222>>

\* The forecast field of a point: null, no runs, or two runs.
ForecastFields == <<None, Some(<<>>), Some(<<Run1, Run2>>)>>

BarePoints == <<PointA(Radii[1]), PointA(Radii[2]), PointB(Radii[1]), PointB(Radii[2])>>

\* Every bare point, then every bare point with every forecast field.
GoodPoints ==
    BarePoints \o
    [i \in 1..(Len(BarePoints) * Len(ForecastFields)) |->
        With(BarePoints[((i - 1) % Len(BarePoints)) + 1], "forecast",
             ForecastFields[((i - 1) \div Len(BarePoints)) + 1])]

\* The keys init_typhoon subscripts on a point, and on a forecast point.
PointKeys == <<"lat", "lng", "strong", "speed", "pressure", "move_speed", "radius7">>
ForecastPointKeys == <<"time", "lat", "lng", "strong", "speed", "pressure">>

\* Points that lack a key the adapter subscripts: on the point itself, on a
\* forecast run, on a forecast point.
BadPoints ==
    [i \in 1..Len(PointKeys) |-> Drop(PointA(222), PointKeys[i])]
    \o <<With(PointA(0), "forecast", Some(<<Run1, Drop(Run2, "points")>>))>>
    \o [i \in 1..Len(ForecastPointKeys) |->
           With(PointA(0), "forecast",
               Some(<<[points |-> <<Drop(ForecastPoint("12h", Deg(8), Deg(118), StrongTY),
                                         ForecastPointKeys[i])>>]>>))]

AllPoints == GoodPoints \o BadPoints

TfbhIds == {"A", "B"}

StormRecord(tfbh, points) ==
    [tfbh |-> tfbh, ename |-> IF tfbh = "A" THEN "AMPIL" ELSE "BEBINCA",
     end_time |-> IF tfbh = "A" THEN "t1" ELSE "t2", points |-> points]

RecordKeys == <<"ename", "points", "tfbh", "end_time">>

\* Records that lack a top-level key.
CutRecords == [i \in 1..Len(RecordKeys) |-> Drop(StormRecord("A", <<PointA(0)>>), RecordKeys[i])]

\* A storm record: an id and up to MaxPoints points, or a cut record.
IsRecord(r) ==
    \/ \E id \in TfbhIds, k \in 0..MaxPoints :
         \E sel \in [1..k -> 1..Len(AllPoints)] :
            r = StormRecord(id, [j \in 1..k |-> AllPoints[sel[j]]])
    \/ \E i \in 1..Len(CutRecords) : r = CutRecords[i]

InitMap ==
    /\ pc = "init_typhoon"
    /\ IsRecord(ty)
    /\ made = None
    /\ op = "none" /\ req = None /\ resp = None /\ lst = None
    /\ typhoon = None /\ lat_range = None /\ lon_range = None
    /\ fig = 0 /\ figs = {} /\ ax = None /\ outcome = None
    /\ text = None /\ match = None

InitTyphoon ==
    /\ pc = "init_typhoon"
    /\ made' = init_typhoon(ty)
    /\ pc' = "done"
    /\ UNCHANGED <<op, req, resp, lst, typhoon, lat_range, lon_range, fig,
                   figs, ax, outcome, text, match, ty>>

NextMap == InitTyphoon

SpecMap == InitMap /\ [][NextMap]_vars

(***************************************************************************)
(* Renderer: plot_typhoons(typhoon, plt, ax).  The axes are the record of  *)
(* what was drawn on them, each list in drawing order.                     *)
(***************************************************************************)
BlankAxes ==
    [features |-> <<>>, extent |-> None, gridlines |-> FALSE, markers |-> <<>>,
     texts |-> <<>>, patches |-> <<>>, lines |-> <<>>, title |-> None]

Marker(x, y, marker, color) == [x |-> x, y |-> y, marker |-> marker, color |-> color]

Line(x0, y0, x1, y1, linestyle, color) ==
    [x0 |-> x0, y0 |-> y0, x1 |-> x1, y1 |-> y1, linestyle |-> linestyle,
     color |-> color]

\* np.linspace(_, _, 100)
NSamples == 100

\* Polygon of the NSamples points (lon + radius*cos a, lat + radius*sin a),
\* a from `from` to `to` half-turns, and then the centre (lon, lat).
SemiCircle(lon, lat, radius, from, to) ==
    [lon |-> lon, lat |-> lat, radius |-> radius, from |-> from, to |-> to,
     samples |-> NSamples, closed_at |-> <<lon, lat>>, color |-> "green"]

RadiusOrZero(radius) == radius >= 0
\* if radius_km_north > 0, if radius_km_south > 0
HasRadius(radius) == radius > 0

\* The lines drawn for one forecast_set anchored at `point`.
ForecastSetLines(point, forecast_set) ==
    [j \in 1..Len(forecast_set) |->
        Line(IF j = 1 THEN point.long ELSE forecast_set[j - 1].data.long,
             IF j = 1 THEN point.lat ELSE forecast_set[j - 1].data.lat,
             forecast_set[j].data.long, forecast_set[j].data.lat, ":",
             palette_get(forecast_set[j].data.cat))]

ForecastSetMarkers(forecast_set) ==
    [j \in 1..Len(forecast_set) |->
        Marker(forecast_set[j].data.long, forecast_set[j].data.lat, "x",
               palette_get(forecast_set[j].data.cat))]

\* The lines of one pass of "for point in typhoon.past": the segment from the
\* point before (the first point itself on the first pass), then the forecast
\* sets of the point.
PastPointLines(past, i) ==
    <<Line(past[IF i = 1 THEN 1 ELSE i - 1].long,
           past[IF i = 1 THEN 1 ELSE i - 1].lat,
           past[i].long, past[i].lat, "-", palette_get(past[i].cat))>>
    \o (IF past[i].forecast = None THEN <<>>
        ELSE Concat([k \in 1..Len(Val(past[i].forecast)) |->
                        ForecastSetLines(past[i], Val(past[i].forecast)[k])]))

PastPointMarkers(past, i) ==
    IF past[i].forecast = None THEN <<>>
    ELSE Concat([k \in 1..Len(Val(past[i].forecast)) |->
                    ForecastSetMarkers(Val(past[i].forecast)[k])])

plot_typhoons(t, axes) ==
    LET lat == t.current.lat
        lon == t.current.long
        radius_km_north == KmToDeg(t.wind_range[1])
        radius_km_south == KmToDeg(t.wind_range[2])
        north == IF HasRadius(radius_km_north)
                 THEN <<SemiCircle(lon, lat, radius_km_north, 0, 1)>> ELSE <<>>
        south == IF HasRadius(radius_km_south)
                 THEN <<SemiCircle(lon, lat, radius_km_south, 1, 2)>> ELSE <<>>
    IN  [axes EXCEPT
            !.markers = @ \o <<Marker(lon, lat, "o", palette_get(t.current.cat))>>
                          \o Concat([i \in 1..Len(t.past) |-> PastPointMarkers(t.past, i)]),
            !.texts = Append(@, [x |-> lon, y |-> lat, s |-> t.name]),
            !.patches = @ \o north \o south,
            !.lines = @ \o Concat([i \in 1..Len(t.past) |-> PastPointLines(t.past, i)])]

(***************************************************************************)
(* plot_typhoons on its own: a Typhoon as the adapter builds it, with any  *)
(* wind_range pair.                                                        *)
(***************************************************************************)
WindKm == {0, 111, 222}

InitPlot ==
    /\ pc = "plot_typhoons"
    /\ \E k \in 1..MaxPoints :
         \E sel \in [1..k -> 1..Len(GoodPoints)], a \in WindKm, b \in WindKm :
            typhoon = Some([init_typhoon(StormRecord("A",
                               [j \in 1..k |-> GoodPoints[sel[j]]])).val
                            EXCEPT !.wind_range = <<a, b>>])
    /\ ax = BlankAxes
    /\ op = "none" /\ req = None /\ resp = None /\ lst = None
    /\ lat_range = None /\ lon_range = None
    /\ fig = 0 /\ figs = {} /\ outcome = None
    /\ text = None /\ match = None /\ ty = None /\ made = None

PlotTyphoons ==
    /\ pc = "plot_typhoons"
    /\ ax' = plot_typhoons(Val(typhoon), ax)
    /\ pc' = "done"
    /\ UNCHANGED <<op, req, resp, lst, typhoon, lat_range, lon_range, fig,
                   figs, outcome, text, match, ty, made>>

NextPlot == PlotTyphoons

SpecPlot == InitPlot /\ [][NextPlot]_vars

(***************************************************************************)
(* CAdapter.get_typhoon_list and CAdapter.get_typhoon.                     *)
(***************************************************************************)
\* The loop of get_typhoon_list over the decoded response.
get_typhoon_list(typhoon_list_data) ==
    Collect([i \in 1..Len(typhoon_list_data) |-> init_typhoon(typhoon_list_data[i])])

RECURSIVE LastMatch(_, _)
LastMatch(l, _id) ==
    IF l = <<>> THEN None
    ELSE LET later == LastMatch(Tail(l), _id)
         IN  IF later # None THEN later
             ELSE IF Head(l).id = _id THEN Some(Head(l)) ELSE None

\* The scan of get_typhoon over lst; falling off the loop returns None.
RECURSIVE get_typhoon(_, _)
get_typhoon(l, _id) ==
    IF l = <<>> THEN None
    ELSE IF Head(l).id = _id THEN Some(Head(l))
    ELSE get_typhoon(Tail(l), _id)

(***************************************************************************)
(* plot_typhoon: the extent of the single-storm map.                       *)
(***************************************************************************)
\* forecast_points: every point2.data of every forecast_set of every past point.
ForecastPoints(t) ==
    Concat([i \in 1..Len(t.past) |->
        IF t.past[i].forecast = None THEN <<>>
        ELSE Concat([k \in 1..Len(Val(t.past[i].forecast)) |->
                 [j \in 1..Len(Val(t.past[i].forecast)[k]) |->
                     Val(t.past[i].forecast)[k][j].data]])])

Lats(t) ==
    [i \in 1..Len(t.wind_range) |-> t.current.lat + KmToDeg(t.wind_range[i])]
    \o [i \in 1..Len(t.past) |-> t.past[i].lat]
    \o [i \in 1..Len(ForecastPoints(t)) |-> ForecastPoints(t)[i].lat]

Longs(t) ==
    [i \in 1..Len(t.wind_range) |-> t.current.long + KmToDeg(t.wind_range[i])]
    \o [i \in 1..Len(t.past) |-> t.past[i].long]
    \o [i \in 1..Len(ForecastPoints(t)) |-> ForecastPoints(t)[i].long]

\* min(...) - 2, max(...) + 2
Margin == 2

LatRange(t) == <<MinOf(Lats(t)) - Deg(Margin), MaxOf(Lats(t)) + Deg(Margin)>>
LonRange(t) == <<MinOf(Longs(t)) - Deg(Margin), MaxOf(Longs(t)) + Deg(Margin)>>

\* ax.set_extent([100, 180, 4, 50]) of realtime_summary
OverviewExtent == <<Deg(100), Deg(180), Deg(4), Deg(50)>>

(***************************************************************************)
(* The responses of the provider that the handler's calls are run against. *)
(***************************************************************************)
SampleTracks ==
    << <<PointA(0)>>,
       <<PointB(222)>>,
       <<PointA(0), PointB(0)>>,
       <<PointB(0), PointA(222)>>,
       <<With(PointB(222), "forecast", Some(<<Run1, Run2>>))>>,
       <<With(PointA(0), "forecast", Some(<<Run1, Run2>>)), PointB(222)>>,
       <<>>,
       <<Drop(PointA(0), "lat")>> >>

SampleRecords ==
    [i \in 1..(2 * Len(SampleTracks)) |->
        StormRecord(IF i <= Len(SampleTracks) THEN "A" ELSE "B",
                    SampleTracks[((i - 1) % Len(SampleTracks)) + 1])]

\* typhoon.result: absent, or the id the user typed.
Requests == {None, Some("A"), Some("C")}

(***************************************************************************)
(* The chat handler and the two orchestrators, step by step.  A call runs  *)
(* to its end without yielding: the orchestrators are coroutines with no   *)
(* await in them, so calls do not interleave.                              *)
(***************************************************************************)
Init ==
    /\ pc = "idle"
    /\ op = "none" /\ req = None /\ resp = None /\ lst = None
    /\ typhoon = None /\ lat_range = None /\ lon_range = None
    /\ fig = 0 /\ figs = {} /\ ax = None /\ outcome = None
    /\ text = None /\ match = None /\ ty = None /\ made = None

others == <<text, match, ty, made>>

\* handle: plot_typhoon(typhoon.result) if an id was given, else realtime_summary().
Handle ==
    /\ pc = "idle"
    /\ Cardinality(figs) < MaxFigures
    /\ \E r \in Requests :
         /\ req' = r
         /\ op' = IF r # None THEN "plot_typhoon" ELSE "realtime_summary"
    /\ pc' = "fetch"
    /\ UNCHANGED <<resp, lst, typhoon, lat_range, lon_range, fig, figs, ax,
                   outcome, others>>

\* requests.get(...) and response.json() succeed.
FetchOk ==
    /\ pc = "fetch"
    /\ \E n \in 0..MaxStorms :
         \E sel \in [1..n -> 1..Len(SampleRecords)] :
            resp' = Some([i \in 1..n |-> SampleRecords[sel[i]]])
    /\ pc' = "map"
    /\ UNCHANGED <<op, req, lst, typhoon, lat_range, lon_range, fig, figs, ax,
                   outcome, others>>

\* requests.get(...) or response.json() raises.
FetchFail ==
    /\ pc = "fetch"
    /\ outcome' = Raise("RequestException", "currMerger.json")
    /\ pc' = "done"
    /\ UNCHANGED <<op, req, resp, lst, typhoon, lat_range, lon_range, fig,
                   figs, ax, others>>

\* The loop of get_typhoon_list.
MapList ==
    /\ pc = "map"
    /\ LET r == get_typhoon_list(Val(resp))
       IN  IF r.exc # "none"
           THEN /\ outcome' = r
                /\ pc' = "done"
                /\ UNCHANGED lst
           ELSE /\ lst' = Some(r.val)
                /\ pc' = IF op = "plot_typhoon" THEN "scan" ELSE "figure"
                /\ UNCHANGED outcome
    /\ UNCHANGED <<op, req, resp, typhoon, lat_range, lon_range, fig, figs,
                   ax, others>>

\* The scan of get_typhoon; plot_typhoon's typhoon = adapter.get_typhoon(_id).
GetTyphoon ==
    /\ pc = "scan"
    /\ typhoon' = get_typhoon(Val(lst), Val(req))
    /\ pc' = "extent"
    /\ UNCHANGED <<op, req, resp, lst, lat_range, lon_range, fig, figs, ax,
                   outcome, others>>

\* plot_typhoon from "forecast_points = []" to lon_range.  typhoon.past on
\* None raises AttributeError.
ComputeExtent ==
    /\ pc = "extent"
    /\ IF typhoon = None
       THEN /\ outcome' = Raise("AttributeError", "past")
            /\ pc' = "done"
            /\ UNCHANGED <<lat_range, lon_range>>
       ELSE /\ lat_range' = Some(LatRange(Val(typhoon)))
            /\ lon_range' = Some(LonRange(Val(typhoon)))
            /\ pc' = "figure"
            /\ UNCHANGED outcome
    /\ UNCHANGED <<op, req, resp, lst, typhoon, fig, figs, ax, others>>

\* plt.figure(...) registers a new figure with pyplot; plt.axes, add_feature,
\* set_extent, gridlines.
CreateFigure ==
    /\ pc = "figure"
    /\ LET num == IF figs = {} THEN 1
                  ELSE 1 + CHOOSE m \in figs : \A g \in figs : g <= m
       IN  /\ fig' = num
           /\ figs' = figs \cup {num}
    /\ ax' = [BlankAxes EXCEPT
                !.features = <<"OCEAN">>,
                !.extent = IF op = "plot_typhoon"
                           THEN Some(<<Val(lon_range)[1], Val(lon_range)[2],
                                       Val(lat_range)[1], Val(lat_range)[2]>>)
                           ELSE Some(OverviewExtent),
                !.gridlines = TRUE]
    /\ pc' = "draw"
    /\ UNCHANGED <<op, req, resp, lst, typhoon, lat_range, lon_range, outcome,
                   others>>

\* for typhoon in typhoon_list: plot_typhoons(typhoon, plt, ax)
RECURSIVE DrawAll(_, _)
DrawAll(l, axes) ==
    IF l = <<>> THEN axes ELSE DrawAll(Tail(l), plot_typhoons(Head(l), axes))

Draw ==
    /\ pc = "draw"
    /\ ax' = IF op = "plot_typhoon" THEN plot_typhoons(Val(typhoon), ax)
             ELSE DrawAll(Val(lst), ax)
    /\ pc' = "title"
    /\ UNCHANGED <<op, req, resp, lst, typhoon, lat_range, lon_range, fig,
                   figs, outcome, others>>

\* plt.title(...), fig.savefig(tempfile, ...), return tempfile.
\* typhoon_list[0] on an empty list raises IndexError.
TitleAndSave ==
    /\ pc = "title"
    /\ IF op = "realtime_summary" /\ Val(lst) = <<>>
       THEN /\ outcome' = Raise("IndexError", "list index out of range")
            /\ UNCHANGED ax
       ELSE /\ ax' = [ax EXCEPT !.title =
                        IF op = "plot_typhoon"
                        THEN Some(<<"Typhoon %s | Issued %s", Val(typhoon).name,
                                    Val(typhoon).issue>>)
                        ELSE Some(<<"Typhoon Tracks | Issued ", Val(lst)[1].issue>>)]
            /\ outcome' = Return([image |-> ax', figure |-> fig])
    /\ pc' = "done"
    /\ UNCHANGED <<op, req, resp, lst, typhoon, lat_range, lon_range, fig,
                   figs, others>>

\* handle sends the image, or the exception leaves handle; the locals of
\* the call go, pyplot's figures stay.
Reply ==
    /\ pc = "done"
    /\ pc' = "idle"
    /\ op' = "none" /\ req' = None /\ resp' = None /\ lst' = None
    /\ typhoon' = None /\ lat_range' = None /\ lon_range' = None
    /\ fig' = 0 /\ ax' = None /\ outcome' = None
    /\ UNCHANGED <<figs, others>>

Next ==
    \/ Handle
    \/ FetchOk
    \/ FetchFail
    \/ MapList
    \/ GetTyphoon
    \/ ComputeExtent
    \/ CreateFigure
    \/ Draw
    \/ TitleAndSave
    \/ Reply

Spec == Init /\ [][Next]_vars

(***************************************************************************)
(* Claims.                                                                 *)
(***************************************************************************)
SetMin(S) == CHOOSE m \in S : \A x \in S : m <= x
SetMax(S) == CHOOSE m \in S : \A x \in S : x <= m
Range(f) == {f[i] : i \in DOMAIN f}

\* C1: plot_typhoon with an id that no storm of the fetched and mapped list
\* has ends in the outcome NotFound: not an image, not another exception.
C1_NotFoundOutcome ==
    (/\ pc = "done"
     /\ op = "plot_typhoon"
     /\ lst # None
     /\ \A i \in 1..Len(Val(lst)) : Val(lst)[i].id # Val(req))
    => outcome.exc = "NotFound"

\* C2: get_typhoon returns the first storm of the list, in list order, whose
\* id is _id, and returns None, with nothing raised, when no storm has it.
C2_FirstMatch ==
    pc = "extent" =>
        LET l == Val(lst)
            hits == {i \in 1..Len(l) : l[i].id = Val(req)}
        IN  /\ outcome = None
            /\ IF hits = {} THEN typhoon = None
               ELSE typhoon = Some(l[SetMin(hits)])

\* C2 witness: two different storms of the list have the id; the first is returned.
C2_Witness ==
    /\ pc = "extent"
    /\ Len(Val(lst)) = 2
    /\ Val(lst)[1].id = Val(req)
    /\ Val(lst)[2].id = Val(req)
    /\ Val(lst)[1] # Val(lst)[2]
    /\ typhoon = Some(Val(lst)[1])

\* C3: realtime_summary on any list of n >= 0 mapped storms, the empty list
\* included, returns an image of the fixed-extent map with every storm drawn,
\* titled with the issuance time of the first storm when n >= 1.
C3_OverviewImage ==
    (pc = "done" /\ op = "realtime_summary" /\ lst # None)
    => /\ outcome.exc = "none"
       /\ ax.extent = Some(OverviewExtent)
       /\ Len(ax.texts) = Len(Val(lst))
       /\ Len(Val(lst)) >= 1 =>
            ax.title = Some(<<"Typhoon Tracks | Issued ", Val(lst)[1].issue>>)

\* The bounding box the claim C4 names: the current position offset by
\* +windRange/111 and by -windRange/111, every past point, every forecast point.
ClaimedLats(t) ==
    {t.current.lat + KmToDeg(w) : w \in Range(t.wind_range)}
    \cup {t.current.lat - KmToDeg(w) : w \in Range(t.wind_range)}
    \cup {p.lat : p \in Range(t.past)}
    \cup {p.lat : p \in Range(ForecastPoints(t))}

ClaimedLongs(t) ==
    {t.current.long + KmToDeg(w) : w \in Range(t.wind_range)}
    \cup {t.current.long - KmToDeg(w) : w \in Range(t.wind_range)}
    \cup {p.long : p \in Range(t.past)}
    \cup {p.long : p \in Range(ForecastPoints(t))}

\* C4: the extent set on the single-storm map is the bounding box of the
\* current position +/- windRange/111, the past points and the forecast
\* points, widened by 2 degrees on each side.
C4_AutoExtent ==
    (pc \in {"draw", "title"} /\ op = "plot_typhoon")
    => ax.extent = Some(<<SetMin(ClaimedLongs(Val(typhoon))) - Deg(2),
                          SetMax(ClaimedLongs(Val(typhoon))) + Deg(2),
                          SetMin(ClaimedLats(Val(typhoon))) - Deg(2),
                          SetMax(ClaimedLats(Val(typhoon))) + Deg(2)>>)

\* The patches of the axes that are the semicircle from `from` to `to` half-turns.
Semis(from, to) ==
    {i \in 1..Len(ax.patches) : ax.patches[i].from = from /\ ax.patches[i].to = to}

\* The patch is centred on and closed at the current position of t, has
\* NSamples arc points and the radius km / 111 degrees.
SemiOf(patch, t, km) ==
    /\ patch.lon = t.current.long
    /\ patch.lat = t.current.lat
    /\ patch.closed_at = <<t.current.long, t.current.lat>>
    /\ patch.samples = 100
    /\ patch.radius * 111 = km * Scale

\* C5: for a wind range (a, b) in km, plot_typhoons adds the northern
\* semicircle (0..pi, radius a/111 degrees, closed at the centre) exactly
\* when a > 0 and the southern one (pi..2pi, radius b/111 degrees) exactly
\* when b > 0, and no other patch; the wind range still holds a and b in km.
C5_WindPolygons ==
    pc = "done" =>
        LET t == Val(typhoon)
            a == t.wind_range[1]
            b == t.wind_range[2]
        IN  /\ Cardinality(Semis(0, 1)) = (IF a > 0 THEN 1 ELSE 0)
            /\ Cardinality(Semis(1, 2)) = (IF b > 0 THEN 1 ELSE 0)
            /\ Len(ax.patches) = Cardinality(Semis(0, 1)) + Cardinality(Semis(1, 2))
            /\ \A i \in Semis(0, 1) : SemiOf(ax.patches[i], t, a)
            /\ \A i \in Semis(1, 2) : SemiOf(ax.patches[i], t, b)

\* C5 witness: a positive northern and a zero southern wind range were drawn
\* as exactly one patch.
C5_Witness ==
    /\ pc = "done"
    /\ Val(typhoon).wind_range = <<222, 0>>
    /\ Len(ax.patches) = 1
    /\ ax.patches[1].from = 0

\* A record lacks a field the claim C6 names: points or tfbh, a last point
\* (the points array is empty), or lat, lng or strong of a point.
LacksRequired(r) ==
    \/ ~Has(r, "points")
    \/ ~Has(r, "tfbh")
    \/ /\ Has(r, "points")
       /\ \/ r.points = <<>>
          \/ \E i \in 1..Len(r.points) :
                \E k \in {"lat", "lng", "strong"} : ~Has(r.points[i], k)

\* C6: init_typhoon on a record that lacks a required field ends with a
\* MalformedDataError and with no other error kind.
C6_MalformedDataError ==
    (pc = "done" /\ LacksRequired(ty)) => made.exc = "MalformedDataError"

\* The text without one final newline.
Chomp(s) == IF s # <<>> /\ s[Len(s)] = "\n" THEN SubSeq(s, 1, Len(s) - 1) ELSE s

\* The positions of a '(' in s.
Opens(s) == {i \in 1..Len(s) : s[i] = "("}

\* s ends with a parenthesised group: '(', one or more characters that are
\* no parenthesis, ')'.
EndsWithGroup(s) ==
    /\ Len(s) >= 3
    /\ s[Len(s)] = ")"
    /\ Opens(s) # {}
    /\ SetMax(Opens(s)) < Len(s) - 1
    /\ \A k \in (SetMax(Opens(s)) + 1)..(Len(s) - 1) : s[k] # ")"

\* C7 as stated: a text that ends with a parenthesised group gives the text
\* between the last '(' and the final ')'; any other text gives None.
C7_AnyGroup ==
    pc = "done" =>
        IF EndsWithGroup(text)
        THEN match = Some(SubSeq(text, SetMax(Opens(text)) + 1, Len(text) - 1))
        ELSE match = None

\* s ends with '(', one or more ASCII letters or spaces, ')'.
EndsWithLetterGroup(s) ==
    /\ EndsWithGroup(s)
    /\ \A k \in (SetMax(Opens(s)) + 1)..(Len(s) - 1) :
          s[k] \in AsciiLetters \cup {" "}

\* C7 amended: a text that ends, after dropping one final newline, with '(',
\* one or more ASCII letters or spaces and ')' gives the text between that
\* '(' and the final ')'; every other text gives None.
C7_LetterGroup ==
    pc = "done" =>
        LET s == Chomp(text)
        IN  IF EndsWithLetterGroup(s)
            THEN match = Some(SubSeq(s, SetMax(Opens(s)) + 1, Len(s) - 1))
            ELSE match = None

\* C7 witness: a group of a letter and a space was extracted.
C7_Witness ==
    /\ pc = "done"
    /\ text = <<"(", "T", " ", ")">>
    /\ match = Some(<<"T", " ">>)

\* The forecast point fp was built from the raw forecast point raw.
SameForecastPoint(fp, raw) ==
    /\ fp.hour = raw.time
    /\ fp.data.lat = raw.lat
    /\ fp.data.long = raw.lng

\* C9: past[i] carries forecast branches exactly when points[i] has a
\* non-null forecast field; the branches are the runs of that field in their
\* order, each with its points in their order and their time label; current
\* carries none.
C9_ForecastBranches ==
    (pc = "done" /\ made.exc = "none") =>
        LET t == made.val
        IN  /\ t.current.forecast = None
            /\ Len(t.past) = Len(ty.points)
            /\ \A i \in 1..Len(ty.points) :
                 LET point == ty.points[i]
                     status == t.past[i]
                 IN  IF Has(point, "forecast") /\ point.forecast # None
                     THEN /\ status.forecast # None
                          /\ LET runs == Val(point.forecast)
                                 sets == Val(status.forecast)
                             IN  /\ Len(sets) = Len(runs)
                                 /\ \A k \in 1..Len(runs) :
                                      /\ Len(sets[k]) = Len(runs[k].points)
                                      /\ \A j \in 1..Len(runs[k].points) :
                                           SameForecastPoint(sets[k][j], runs[k].points[j])
                     ELSE status.forecast = None

\* C9 witness: the last point has two forecast runs, which past carries and
\* current does not.
C9_Witness ==
    /\ pc = "done"
    /\ made.exc = "none"
    /\ Len(ty.points) = 2
    /\ Has(ty.points[2], "forecast")
    /\ ty.points[2].forecast = Some(<<Run1, Run2>>)
    /\ ~Has(ty.points[1], "forecast")
    /\ made.val.past[2].forecast # None
    /\ made.val.past[1].forecast = None
    /\ made.val.current.forecast = None

\* The status was built from the raw point.
SameSample(status, point) ==
    /\ status.lat = point.lat
    /\ status.long = point.lng
    /\ status.cat = extract_match(point.strong)

\* C10: the Typhoon of a record with n >= 1 points has current built from
\* the last point, wind_range (radius7, radius7) of the last point, and past
\* of length n with past[i] built from points[i]; so past is not empty and
\* past[n] has the coordinates of current.
C10_StormMapping ==
    (pc = "done" /\ made.exc = "none") =>
        LET t == made.val
            n == Len(ty.points)
        IN  /\ n >= 1
            /\ SameSample(t.current, ty.points[n])
            /\ t.wind_range = <<ty.points[n].radius7, ty.points[n].radius7>>
            /\ Len(t.past) = n
            /\ \A i \in 1..n : SameSample(t.past[i], ty.points[i])
            /\ t.past[n].lat = t.current.lat
            /\ t.past[n].long = t.current.long

\* C10 witness: a record of two points at different places with a positive
\* radius7 on the last was mapped.
C10_Witness ==
    /\ pc = "done"
    /\ made.exc = "none"
    /\ Len(ty.points) = 2
    /\ ty.points[1].lat # ty.points[2].lat
    /\ ty.points[2].radius7 = 222
    /\ made.val.wind_range = <<222, 222>>

\* C8: between calls pyplot holds no open figure: every figure a render call
\* created was disposed of by the time the call ended.
C8_NoLiveFigures == pc = "idle" => figs = {}

====
